---- MODULE Spec2Model ----
(***************************************************************************)
(* Model of the image coding tool (src/app.py): one Streamlit session that *)
(* keeps coded_labels / context_labels / current_index in session state    *)
(* and writes every label change through to the JSON progress file.        *)
(*                                                                         *)
(* Every user action is one run of the script main(): the run reloads the  *)
(* progress file (line 155), initialises whatever session state is still   *)
(* missing (lines 158-186) and then executes the handler of the widget     *)
(* that was clicked.                                                       *)
(***************************************************************************)
EXTENDS Integers, Sequences, FiniteSets, TLC

(***************************************************************************)
(* Bounds of the model.                                                    *)
(***************************************************************************)
\* len(metadata_df): the number of items of the data set.
NumItems == 2
\* The number of items of a larger data set, in which two items can come
\* after the current one.
MoreItems == 3
\* The largest number of entries of the progress file a session starts from.
MaxEntries == 1
\* The same, for the sessions in which save_progress may raise.
MaxEntriesFail == 0
\* The largest number of times save_progress raises in one session.
MaxSaveRaises == 1
\* A write that raises has put at most this many characters in the file.
MaxWritten == 10
\* The largest number of writes two concurrent sessions make together.
MaxWrites == 2

(***************************************************************************)
(* The state.                                                              *)
(***************************************************************************)
VARIABLES
    metadata_rows,  \* len(metadata_df): the number of rows of the data set
    progress_file,  \* PROGRESS_FILE: [valid, data]; data is the JSON object
    session_state,  \* st.session_state of the session
    images,         \* the indices whose image load_single_image can load
    rendered,       \* what the last run of the script drew
    download,       \* the rows of the CSV the last run prepared, if any
    last,           \* the last action taken (history, for the properties)
    save_raised,    \* how many times save_progress has raised (history)
    sessions,       \* two sessions on the same progress file, see below
    writes          \* how many times these two have written the file

vars == <<metadata_rows, progress_file, session_state, images, rendered,
          download, last, save_raised, sessions, writes>>

(***************************************************************************)
(* Values.                                                                 *)
(***************************************************************************)
\* Python's None / JSON null. Labels are the integers 0..3 and 1..2.
None == -1
\* A label that is a dict: the JSON object {} stored as a group_label or as
\* a context of an entry of the progress file.
DictLabel == -2
\* isinstance(label, dict)
IsDict(label) == label = DictLabel
\* A label that is an integer and no key of CATEGORIES or CONTEXT_CATEGORIES,
\* stored as a legacy value, a group_label or a context of an entry.
UnknownCode == 7
\* The keys of the dict CATEGORIES.
CATEGORIES == 0..3
\* The keys of the dict CONTEXT_CATEGORIES.
CONTEXT_CATEGORIES == 1..2

\* Line 188: the data set is the same in every run of a session.
total_images == metadata_rows
Indices == 0..(total_images - 1)

(***************************************************************************)
(* Strings: a key of the progress file is a sequence of characters.  The   *)
(* characters are the ASCII digits, the letter "x", and "sup2" standing    *)
(* for U+00B2 (SUPERSCRIPT TWO), a character for which str.isdigit() is    *)
(* true and which int() does not accept.                                   *)
(***************************************************************************)
AsciiDigits == <<"0", "1", "2", "3", "4", "5", "6", "7", "8", "9">>
DecimalChars == {AsciiDigits[j] : j \in 1..10}
\* Characters with Unicode property Numeric_Type=Digit that are no decimals.
OtherDigitChars == {"sup2"}

\* str.isdigit(): non-empty and every character is a digit character.
isdigit(s) ==
    /\ Len(s) > 0
    /\ \A j \in 1..Len(s) : s[j] \in (DecimalChars \cup OtherDigitChars)

\* int(s) raises ValueError when a character is not a decimal digit.
IntRaises(s) ==
    \/ Len(s) = 0
    \/ \E j \in 1..Len(s) : s[j] \notin DecimalChars

DigitValue(c) == (CHOOSE j \in 1..10 : AsciiDigits[j] = c) - 1

\* int(s) for a string of decimal digits (leading zeros are accepted).
RECURSIVE int(_)
int(s) ==
    IF Len(s) = 0 THEN 0
    ELSE int(SubSeq(s, 1, Len(s) - 1)) * 10 + DigitValue(s[Len(s)])

\* str(i) for a natural number: its decimal digits, no leading zero.
RECURSIVE str(_)
str(i) ==
    IF i < 10 THEN <<AsciiDigits[i + 1]>>
    ELSE str(i \div 10) \o <<AsciiDigits[(i % 10) + 1]>>

(***************************************************************************)
(* The progress data: a Python dict / JSON object, kept as the sequence of *)
(* its items in insertion order.  An item is [k |-> key, v |-> value]; a   *)
(* value is either a dict (isdict, with the set of keys it has) or a bare  *)
(* legacy label.                                                           *)
(***************************************************************************)
\* The dict {'group_label': g, 'context': c} the handlers write.
Record(g, c) ==
    [isdict |-> TRUE, keys |-> {"group_label", "context"},
     group_label |-> g, context |-> c, bare |-> None]
\* A dict that has a group_label and no 'context' key.
RecordNoContext(g) ==
    [isdict |-> TRUE, keys |-> {"group_label"},
     group_label |-> g, context |-> None, bare |-> None]
\* The old format: just the label.
Bare(g) ==
    [isdict |-> FALSE, keys |-> {},
     group_label |-> None, context |-> None, bare |-> g]

\* data.get(name) of a dict value.
Get(data, name) ==
    IF name \in data.keys
    THEN (IF name = "group_label" THEN data.group_label ELSE data.context)
    ELSE None

\* key in progress_data
HasKey(pd, key) == \E j \in 1..Len(pd) : pd[j].k = key
\* progress_data[key]
Lookup(pd, key) == pd[CHOOSE j \in 1..Len(pd) : pd[j].k = key].v
\* Upsert with the bug of adding an item without looking for the key.
UpsertAlwaysAppends(pd, key, value) == Append(pd, [k |-> key, v |-> value])

\* progress_data[key] = value: in place when the key exists, else appended.
Upsert(pd, key, value) ==
    IF HasKey(pd, key)
    THEN [j \in 1..Len(pd) |->
            IF pd[j].k = key THEN [k |-> key, v |-> value] ELSE pd[j]]
    ELSE Append(pd, [k |-> key, v |-> value])
\* Delete with the bug of progress_data.clear().
DeleteAll(pd, key) == <<>>

\* del progress_data[key]
Delete(pd, key) ==
    LET keep == {j \in 1..Len(pd) : pd[j].k # key}
        pos(n) == CHOOSE j \in keep : Cardinality({i \in keep : i < j}) = n - 1
    IN  [n \in 1..Cardinality(keep) |-> pd[pos(n)]]

(***************************************************************************)
(* Session initialisation, lines 158-186: what one run of the script does  *)
(* to st.session_state before any widget is drawn.                         *)
(***************************************************************************)
AllNone == [i \in Indices |-> None]

\* The loop of lines 163-170 from item j on; int() may raise in the middle.
RECURSIVE LoadCodedLabels(_, _, _)
LoadCodedLabels(pd, j, labels) ==
    IF j > Len(pd) THEN [labels |-> labels, raised |-> FALSE]
    ELSE LET idx == pd[j].k
             data == pd[j].v
         IN  IF ~isdigit(idx) THEN LoadCodedLabels(pd, j + 1, labels)
             ELSE IF IntRaises(idx) THEN [labels |-> labels, raised |-> TRUE]
             ELSE IF int(idx) < total_images
             THEN LoadCodedLabels(pd, j + 1,
                    [labels EXCEPT ![int(idx)] =
                        IF data.isdict THEN Get(data, "group_label")
                        ELSE data.bare])
             ELSE LoadCodedLabels(pd, j + 1, labels)

\* The loop of lines 174-177.
RECURSIVE LoadContextLabels(_, _, _)
LoadContextLabels(pd, j, labels) ==
    IF j > Len(pd) THEN [labels |-> labels, raised |-> FALSE]
    ELSE LET idx == pd[j].k
             data == pd[j].v
         IN  IF ~isdigit(idx) THEN LoadContextLabels(pd, j + 1, labels)
             ELSE IF IntRaises(idx) THEN [labels |-> labels, raised |-> TRUE]
             ELSE IF int(idx) < total_images
                     /\ data.isdict /\ "context" \in data.keys
             THEN LoadContextLabels(pd, j + 1,
                    [labels EXCEPT ![int(idx)] = data.context])
             ELSE LoadContextLabels(pd, j + 1, labels)

\* FirstUncoded with the bug of a loop without break: the last such index.
FirstUncodedNoBreak(labels, index) ==
    IF \E i \in Indices : labels[i] = None
    THEN CHOOSE i \in Indices :
            /\ labels[i] = None
            /\ \A h \in Indices : h > i => labels[h] # None
    ELSE index

\* Lines 183-186: the first index whose label is None, else the index as is.
FirstUncoded(labels, index) ==
    IF \E i \in Indices : labels[i] = None
    THEN CHOOSE i \in Indices :
            /\ labels[i] = None
            /\ \A h \in Indices : h < i => labels[h] # None
    ELSE index

\* A session state: the keys present in st.session_state and their values
\* (a key that is absent carries the value its initialisation starts from).
Session(keys, index, coded, context) ==
    [keys |-> keys, current_index |-> index,
     coded_labels |-> coded, context_labels |-> context]

EmptySession == Session({}, 0, AllNone, AllNone)

\* Lines 160-170.
InitCoded(ss, pd) ==
    LET r == LoadCodedLabels(pd, 1, AllNone)
    IN  [ss |-> [ss EXCEPT !.keys = @ \cup {"coded_labels"},
                           !.coded_labels = r.labels],
         raised |-> r.raised]

\* Lines 171-177.
InitContext(ss, pd) ==
    LET r == LoadContextLabels(pd, 1, AllNone)
    IN  [ss |-> [ss EXCEPT !.keys = @ \cup {"context_labels"},
                           !.context_labels = r.labels],
         raised |-> r.raised]

\* Lines 180-186.
AutoJump(ss) ==
    [ss EXCEPT !.keys = @ \cup {"has_auto_jumped"},
               !.current_index = FirstUncoded(ss.coded_labels, @)]

\* Lines 158-186 of one run: each block runs only when its key is missing;
\* an exception ends the run and keeps what was assigned before it.
InitSession(ss, pd) ==
    LET s1 == IF "current_index" \in ss.keys THEN ss
              ELSE [ss EXCEPT !.keys = @ \cup {"current_index"},
                              !.current_index = 0]
        c  == IF "coded_labels" \in s1.keys
              THEN [ss |-> s1, raised |-> FALSE]
              ELSE InitCoded(s1, pd)
        x  == IF c.raised \/ "context_labels" \in c.ss.keys
              THEN c
              ELSE InitContext(c.ss, pd)
    IN  IF x.raised THEN x
        ELSE [ss |-> IF "has_auto_jumped" \in x.ss.keys THEN x.ss
                     ELSE AutoJump(x.ss),
              raised |-> FALSE]

\* The labels a new session ends with once its runs stop raising: a run that
\* raised left its key set, so the next run skips that block.
RECURSIVE Reconcile(_, _)
Reconcile(ss, pd) ==
    LET r == InitSession(ss, pd)
    IN  IF r.raised THEN Reconcile(r.ss, pd) ELSE r.ss

FreshSession(pd) == Reconcile(EmptySession, pd)

\* Line 192.
coded_count(coded) == Cardinality({i \in Indices : coded[i] # None})

current_index == session_state.current_index
coded_labels == session_state.coded_labels
context_labels == session_state.context_labels

(***************************************************************************)
(* What a run draws.  A view records the values the widgets were drawn     *)
(* from: current_idx, current_label (line 260), current_context (line      *)
(* 285), coded_count (line 192), and how far the block of lines 249-346    *)
(* got before an exception sent it to line 348.                            *)
(***************************************************************************)
\* A widget: the four category buttons carry their code.
Widget(name, code) == [name |-> name, code |-> code]
Button(name) == Widget(name, None)

\* The position of a widget in the block of lines 249-346.
BlockPosition(w) ==
    CASE w.name = "btn" -> w.code
      [] w.name = "newscast_btn" -> Cardinality(CATEGORIES)
      [] w.name = "congress_btn" -> Cardinality(CATEGORIES) + 1
      [] w.name = "advance_btn" -> Cardinality(CATEGORIES) + 2
      [] w.name = "clear_btn" -> Cardinality(CATEGORIES) + 3
BlockEnd == Cardinality(CATEGORIES) + 3

\* No run yet, and a run that raised before it drew a widget (lines 155-177).
\* The field ended tells how far a run got: "init" (not past line 186),
\* "summary" (an exception left main() in lines 357-385) or "end".
NoView == [status |-> "none", ended |-> "init", idx |-> 0, label |-> None,
           context |-> None, count |-> 0, reach |-> BlockEnd]
Crashed == [NoView EXCEPT !.status = "crashed"]

\* Lines 357-385 raise, outside the try of lines 249-348, when a label or a
\* context is neither None nor a dict nor a key of CATEGORIES or of
\* CONTEXT_CATEGORIES: KeyError at line 375 or 383, at whatever index it is.
SummaryRaises(ss) ==
    \E i \in Indices :
        \/ ss.coded_labels[i] \notin (CATEGORIES \cup {None, DictLabel})
        \/ ss.context_labels[i]
                \notin (CONTEXT_CATEGORIES \cup {None, DictLabel})

\* A run that gets past line 186 without an exception in a handler: it ends
\* at the end of main(), or in the summary with an uncaught exception.
\* Line 237: the block of the current image is run only for an index below
\* total_images.
\* Line 279 raises on a label that is no key of CATEGORIES (KeyError, or
\* TypeError for a dict), after the category buttons; line 324 raises alike
\* on the context, after the two context buttons; line 348 catches both.
View(ss) ==
    LET current_idx == ss.current_index
        current_label == IF current_idx \in Indices
                         THEN ss.coded_labels[current_idx] ELSE None
        current_context == IF current_idx \in Indices
                           THEN ss.context_labels[current_idx] ELSE None
    IN  [status |-> IF SummaryRaises(ss) THEN "crashed" ELSE "ok",
         ended |-> IF SummaryRaises(ss) THEN "summary" ELSE "end",
         idx |-> current_idx,
         label |-> current_label,
         context |-> current_context,
         count |-> coded_count(ss.coded_labels),
         reach |-> IF current_label \notin (CATEGORIES \cup {None})
                   THEN Cardinality(CATEGORIES) - 1
                   ELSE IF current_context
                            \notin (CONTEXT_CATEGORIES \cup {None})
                   THEN Cardinality(CATEGORIES) + 1
                   ELSE BlockEnd]

\* A run whose handler of widget w raised: drawn from the values read before
\* the handler ran (session state ss), and the block of lines 249-346 stops
\* at w; the summary reads the labels as the handler left them (after).
StaleView(ss, w, after) ==
    [View(ss) EXCEPT !.reach = BlockPosition(w),
                     !.status = View(after).status,
                     !.ended = View(after).ended]

\* Drawn with the bug of drawing every widget inside the block of the image.
DrawnWithImageOnly(w, v, imgs) ==
    /\ v.ended # "init"
    /\ v.idx \in imgs
    /\ CASE w.name = "previous" -> v.idx # 0
         [] w.name = "next" -> v.idx < total_images - 1
         [] w.name = "final_results" ->
                v.ended = "end" /\ v.count = total_images
         [] w.name \in {"current_results", "backup"} -> v.ended = "end"
         [] w.name = "advance_btn" -> v.label # None
         [] w.name = "clear_btn" -> v.label # None \/ v.context # None
         [] OTHER -> TRUE

\* Drawn with the bug of drawing the buttons of the image outside the test
\* of line 248.
DrawnWithoutImage(w, v, imgs) ==
    /\ v.ended # "init"
    /\ CASE w.name = "previous" -> v.idx # 0
         [] w.name = "next" -> v.idx < total_images - 1
         [] w.name = "final_results" ->
                v.ended = "end" /\ v.count = total_images
         [] w.name \in {"current_results", "backup"} -> v.ended = "end"
         [] w.name = "advance_btn" ->
                BlockPosition(w) <= v.reach /\ v.label # None
         [] w.name = "clear_btn" ->
                /\ BlockPosition(w) <= v.reach
                /\ (v.label # None \/ v.context # None)
         [] w.name \in {"btn", "newscast_btn", "congress_btn"} ->
                BlockPosition(w) <= v.reach
         [] OTHER -> TRUE

\* Whether a run with view v draws widget w enabled.  The export and the
\* backup buttons come after the summary.
Drawn(w, v, imgs) ==
    /\ v.ended # "init"
    /\ CASE w.name = "previous" -> v.idx # 0
         [] w.name = "next" -> v.idx < total_images - 1
         [] w.name \in {"go", "next_uncoded"} -> TRUE
         [] w.name \in {"current_results", "backup"} -> v.ended = "end"
         [] w.name = "final_results" ->
                v.ended = "end" /\ v.count = total_images
         [] w.name \in {"btn", "newscast_btn", "congress_btn"} ->
                /\ v.idx \in imgs
                /\ BlockPosition(w) <= v.reach
         [] w.name = "advance_btn" ->
                /\ v.idx \in imgs
                /\ BlockPosition(w) <= v.reach
                /\ v.label # None
         [] w.name = "clear_btn" ->
                /\ v.idx \in imgs
                /\ BlockPosition(w) <= v.reach
                /\ (v.label # None \/ v.context # None)

\* A click on w runs its handler when the last run drew w and the run the
\* click starts draws it again.
Clickable(w) ==
    /\ Drawn(w, rendered, images)
    /\ Drawn(w, View(session_state), images)

(***************************************************************************)
(* The handlers, as functions of the session state and of the progress    *)
(* data the run loaded.                                                    *)
(***************************************************************************)
\* SetGroupLabel with the bug of writing the entry without the context.
SetGroupLabelDropsContext(ss, pd, code) ==
    LET current_idx == ss.current_index
    IN  [ss |-> [ss EXCEPT !.coded_labels[current_idx] = code],
         pd |-> Upsert(pd, str(current_idx), Record(code, None))]

\* Lines 266-272: a category button.
SetGroupLabel(ss, pd, code) ==
    LET current_idx == ss.current_index
    IN  [ss |-> [ss EXCEPT !.coded_labels[current_idx] = code],
         pd |-> Upsert(pd, str(current_idx),
                       Record(code, ss.context_labels[current_idx]))]

\* ToggleContextLabel with the bug of never switching the context off.
ToggleContextLabelOnly(ss, pd, code) ==
    LET current_idx == ss.current_index
        new == [ss EXCEPT !.context_labels[current_idx] = code]
    IN  [ss |-> new,
         pd |-> Upsert(pd, str(current_idx),
                       Record(new.coded_labels[current_idx], code))]

\* ToggleContextLabel with the bug of refusing to replace the other context.
ToggleContextLabelNoReplace(ss, pd, code) ==
    LET current_idx == ss.current_index
        current_context == ss.context_labels[current_idx]
        new == [ss EXCEPT !.context_labels[current_idx] =
                              IF current_context = code THEN None
                              ELSE IF current_context = None THEN code
                              ELSE current_context]
    IN  [ss |-> new,
         pd |-> Upsert(pd, str(current_idx),
                       Record(new.coded_labels[current_idx],
                              new.context_labels[current_idx]))]

\* Lines 291-302 (code 1, Newscast) and 307-318 (code 2, Congress).
ToggleContextLabel(ss, pd, code) ==
    LET current_idx == ss.current_index
        current_context == ss.context_labels[current_idx]
        active == current_context = code
        new == [ss EXCEPT !.context_labels[current_idx] =
                              IF active THEN None ELSE code]
    IN  [ss |-> new,
         pd |-> Upsert(pd, str(current_idx),
                       Record(new.coded_labels[current_idx],
                              new.context_labels[current_idx]))]

\* Lines 341-344: clear all selections.
ClearSelections(ss, pd) ==
    LET current_idx == ss.current_index
    IN  [ss |-> [ss EXCEPT !.coded_labels[current_idx] = None,
                           !.context_labels[current_idx] = None],
         pd |-> IF HasKey(pd, str(current_idx))
                THEN Delete(pd, str(current_idx))
                ELSE pd]

\* NextUncoded with the bug of a loop that has no break: the last index
\* without a label.
NextUncodedNoBreak(coded, current_idx) ==
    LET later == {i \in Indices : i > current_idx /\ coded[i] = None}
    IN  IF later = {} THEN None
        ELSE CHOOSE i \in later : \A h \in later : i >= h

\* Lines 223-227: the next index after current_idx without a label, or None.
NextUncoded(coded, current_idx) ==
    LET later == {i \in Indices : i > current_idx /\ coded[i] = None}
    IN  IF later = {} THEN None
        ELSE CHOOSE i \in later : \A h \in later : i <= h

\* ExportLabels with the bug of reading records only.
ExportLabelsRecordsOnly(pd) ==
    [i \in Indices |->
        IF HasKey(pd, str(i)) /\ Lookup(pd, str(i)).isdict
        THEN Get(Lookup(pd, str(i)), "group_label")
        ELSE None]

\* Lines 358-361 and 364-367: the dict of the number of occurrences of each
\* value that is not None and not a dict.
Counts(labels) ==
    [c \in {labels[i] : i \in {j \in Indices :
                labels[j] # None /\ ~IsDict(labels[j])}} |->
        Cardinality({i \in Indices : labels[i] = c})]
label_counts(ss) == Counts(ss.coded_labels)
context_counts(ss) == Counts(ss.context_labels)

\* Lines 391-404 and 431-444: the two columns read from the progress data.
ExportLabels(pd) ==
    [i \in Indices |->
        IF HasKey(pd, str(i))
        THEN (IF Lookup(pd, str(i)).isdict
              THEN Get(Lookup(pd, str(i)), "group_label")
              ELSE Lookup(pd, str(i)).bare)
        ELSE None]
ExportContext(pd) ==
    [i \in Indices |->
        IF HasKey(pd, str(i))
        THEN (IF Lookup(pd, str(i)).isdict
              THEN Get(Lookup(pd, str(i)), "context")
              ELSE None)
        ELSE None]

Max(a, b) == IF a >= b THEN a ELSE b
Min(a, b) == IF a <= b THEN a ELSE b

\* The number of characters json.dump(.., indent=2) writes for a label, for
\* a value, for a key (U+00B2 is written as an escape of six characters)
\* and for the whole progress data.
ScalarLength(label) ==
    IF label = None THEN 4 ELSE IF IsDict(label) THEN 2 ELSE Len(str(label))
ValueLength(data) ==
    IF ~data.isdict THEN ScalarLength(data.bare)
    ELSE IF "context" \in data.keys
    THEN 42 + ScalarLength(data.group_label) + ScalarLength(data.context)
    ELSE 25 + ScalarLength(data.group_label)
KeyLength(key) ==
    Len(key) + 5 * Cardinality({j \in 1..Len(key) : key[j] = "sup2"})
RECURSIVE ItemsLength(_)
ItemsLength(pd) ==
    IF Len(pd) = 0 THEN 0
    ELSE 6 + KeyLength(Head(pd).k) + ValueLength(Head(pd).v)
           + ItemsLength(Tail(pd))
JsonLength(pd) ==
    IF Len(pd) = 0 THEN 2 ELSE 4 + ItemsLength(pd) + 2 * (Len(pd) - 1)

\* The progress file: whether it holds JSON, the data if so, and its size.
File(pd) == [valid |-> TRUE, data |-> pd, size |-> JsonLength(pd)]
\* Line 107: open(PROGRESS_FILE, 'w') truncates the file.
Truncated == [valid |-> FALSE, data |-> <<>>, size |-> 0]
\* Line 108 and the end of the with block: the characters of progress_data
\* are written from the start of the file when it is closed.  What another
\* writer has put there since the open() stays beyond them.
Written(file, progress_data) ==
    IF JsonLength(progress_data) >= file.size THEN File(progress_data)
    ELSE [valid |-> FALSE, data |-> <<>>, size |-> file.size]

\* The outcomes of save_progress: it returns, open() raises, or the write
\* raises when only the first `written` characters have reached the file.
Saved == [kind |-> "saved", written |-> 0]
OpenRaises == [kind |-> "open_raises", written |-> 0]
DumpRaises(written) == [kind |-> "dump_raises", written |-> written]
SaveOutcomes(progress_data) ==
    {Saved, OpenRaises}
        \cup {DumpRaises(n) :
                n \in 0..Min(MaxWritten, JsonLength(progress_data) - 1)}

\* save_progress, lines 105-108: the file is rewritten with the whole data.
\* open() may raise and leave the file as it is; the write may raise after
\* open() has truncated the file, which leaves the start of the text and no
\* valid JSON.
save_progress(file, progress_data, outcome) ==
    CASE outcome.kind = "saved" -> Written(Truncated, progress_data)
      [] outcome.kind = "open_raises" -> file
      [] outcome.kind = "dump_raises" ->
            [valid |-> FALSE, data |-> <<>>, size |-> outcome.written]

NoDownload == [kind |-> "none", group_labels |-> AllNone,
               context_labels |-> AllNone]

Did(op, code, was, saved) ==
    [op |-> op, code |-> code, was |-> was, saved |-> saved,
     again |-> last.op = op /\ last.code = code /\ last.saved]

(***************************************************************************)
(* The initial states: the session is opened, no run has happened yet.     *)
(***************************************************************************)
\* The keys that lines 163-164 and 173-174 take for an index of the data
\* set, and the keys whose entry they pass over ("2", "x") or raise on
\* ("sup2"): the value of such an entry is never read.
IndexKeys == {str(i) : i \in 0..(NumItems - 1)} \cup {<<"0", "0">>}
OtherKeys == {str(NumItems), <<"x">>, <<"sup2">>}
InitKeys == IndexKeys \cup OtherKeys
InitValues ==
    {Record(3, 2), Record(1, None), Record(None, 1), RecordNoContext(2),
     Bare(0), Record(DictLabel, DictLabel), Bare(UnknownCode),
     Record(UnknownCode, UnknownCode)}
OtherValues == {Record(3, 2), Bare(0)}
InitItems ==
    {[k |-> key, v |-> value] : key \in IndexKeys, value \in InitValues}
        \cup {[k |-> key, v |-> value] :
                key \in OtherKeys, value \in OtherValues}
\* JSON objects of at most MaxEntries items, each key once.
InitStores ==
    UNION {{pd \in [1..n -> InitItems] :
                \A a, b \in 1..n : a # b => pd[a].k # pd[b].k}
           : n \in 0..MaxEntries}

\* Progress files of two entries, over fewer keys and values: a record and
\* a legacy value, at indices of the data set or at the key "sup2".
ScenarioKeys == {str(0), str(1), <<"sup2">>}
ScenarioValues == {Record(3, 2), Bare(0)}
ScenarioStores ==
    {pd \in [1..2 -> {[k |-> key, v |-> value] :
                        key \in ScenarioKeys, value \in ScenarioValues}] :
        pd[1].k # pd[2].k}

\* The sessions that share the progress file: a session has its session
\* state, what its last run drew, and, while a run of its script is between
\* line 155 and its handler, the progress_data that run loaded.
SessionIds == 1..2
NoRun == [state |-> EmptySession, rendered |-> NoView, pc |-> "idle",
          progress_data |-> <<>>]

InitWith(stores, image_sets, rows) ==
    /\ metadata_rows = rows
    /\ progress_file \in {File(pd) : pd \in stores}
    /\ session_state = EmptySession
    /\ images \in image_sets
    /\ rendered = NoView
    /\ download = NoDownload
    /\ last = [op |-> "open", code |-> None, was |-> None, saved |-> TRUE,
               again |-> FALSE]
    /\ save_raised = 0
    /\ sessions = [s \in SessionIds |-> NoRun]
    /\ writes = 0

\* Every image loads.
InitFrom(stores) == InitWith(stores, {Indices}, NumItems)

Init == InitFrom(InitStores \cup ScenarioStores)

(***************************************************************************)
(* The actions: one run of the script each.                                *)
(***************************************************************************)
\* A run without a handler, at any time: the page load, Rerun, an edit of
\* the number input, a click on a download button.  load_progress raises on
\* a file that holds no JSON.  The run is a "start" while the session has
\* not been through lines 180-186.
Run ==
    /\ IF ~progress_file.valid
       THEN /\ rendered' = Crashed
            /\ UNCHANGED session_state
       ELSE LET r == InitSession(session_state, progress_file.data)
            IN  /\ session_state' = r.ss
                /\ rendered' = IF r.raised THEN Crashed ELSE View(r.ss)
    /\ download' = NoDownload
    /\ last' = Did(IF "has_auto_jumped" \in session_state.keys
                   THEN "run" ELSE "start", None, None, TRUE)
    /\ UNCHANGED <<progress_file, images, metadata_rows, save_raised, sessions,
                   writes>>

\* A click while the file holds no JSON: line 155 raises before any handler.
ClickLoadRaises ==
    /\ rendered.ended # "init"
    /\ ~progress_file.valid
    /\ rendered' = Crashed
    /\ download' = NoDownload
    /\ last' = Did("run", None, None, TRUE)
    /\ UNCHANGED <<progress_file, session_state, images, metadata_rows,
                   save_raised, sessions, writes>>

\* A handler that changes labels: r is what it did to the session state and
\* to the loaded progress data, w the widget, outcome that of save_progress.
Mutation(w, r, outcome) ==
    /\ progress_file.valid
    /\ session_state' = r.ss
    /\ progress_file' = save_progress(progress_file, r.pd, outcome)
    /\ IF outcome = Saved THEN TRUE ELSE outcome \in SaveOutcomes(r.pd)
    /\ rendered' = IF outcome = Saved THEN View(r.ss)
                   ELSE StaleView(session_state, w, r.ss)
    /\ download' = NoDownload
    /\ save_raised' = IF outcome = Saved THEN save_raised
                      ELSE save_raised + 1
    /\ UNCHANGED <<images, metadata_rows, sessions, writes>>

ClickCategory(code, outcome) ==
    /\ Clickable(Widget("btn", code))
    /\ Mutation(Widget("btn", code),
                SetGroupLabel(session_state, progress_file.data, code),
                outcome)
    /\ last' = Did("set", code, None,
                   outcome = Saved)

ContextButton(code) ==
    IF code = 1 THEN Button("newscast_btn") ELSE Button("congress_btn")

ClickContext(code, outcome) ==
    /\ Clickable(ContextButton(code))
    /\ Mutation(ContextButton(code),
                ToggleContextLabel(session_state, progress_file.data, code),
                outcome)
    /\ last' = Did("toggle", code, context_labels[current_index],
                   outcome = Saved)

ClickClear(outcome) ==
    /\ Clickable(Button("clear_btn"))
    /\ Mutation(Button("clear_btn"),
                ClearSelections(session_state, progress_file.data),
                outcome)
    /\ last' = Did("clear", None, None, outcome = Saved)

\* A handler that only moves the cursor, then st.rerun().
Navigation(w, index) ==
    /\ Clickable(w)
    /\ progress_file.valid
    /\ session_state' = [session_state EXCEPT !.current_index = index]
    /\ rendered' = View(session_state')
    /\ download' = NoDownload
    /\ last' = Did(w.name, None, None, TRUE)
    /\ UNCHANGED <<progress_file, images, metadata_rows, save_raised, sessions,
                   writes>>

\* Lines 203-205.
ClickPrevious == Navigation(Button("previous"), Max(0, current_index - 1))
\* Lines 208-210.
ClickNext ==
    Navigation(Button("next"), Min(total_images - 1, current_index + 1))
\* ClickGo with the bug of taking the image number for the index.
ClickGoOffByOne(jump_to) == Navigation(Button("go"), jump_to)

\* Lines 216-219: the number input holds a value in 1..total_images.
ClickGo(jump_to) == Navigation(Button("go"), jump_to - 1)
\* Lines 221-232: without a later uncoded index nothing changes.
ClickNextUncoded ==
    LET next_uncoded == NextUncoded(coded_labels, current_index)
    IN  Navigation(Button("next_uncoded"),
                   IF next_uncoded # None THEN next_uncoded
                   ELSE current_index)
\* Lines 333-336.
ClickNextImage ==
    Navigation(Button("advance_btn"),
               IF current_index < total_images - 1 THEN current_index + 1
               ELSE current_index)

\* Lines 389-406 and 429-449: the CSV columns are built from the progress
\* data this run loaded.
Export(w, kind) ==
    /\ Clickable(w)
    /\ progress_file.valid
    /\ download' = [kind |-> kind,
                    group_labels |-> ExportLabels(progress_file.data),
                    context_labels |-> ExportContext(progress_file.data)]
    /\ rendered' = View(session_state)
    /\ last' = Did(w.name, None, None, TRUE)
    /\ UNCHANGED <<progress_file, session_state, images, metadata_rows,
                   save_raised, sessions, writes>>

ClickFinalResults == Export(Button("final_results"), "final")
ClickCurrentResults == Export(Button("current_results"), "current")

\* Lines 419-426: the backup is the JSON of the progress data, no CSV.
ClickBackup ==
    /\ Clickable(Button("backup"))
    /\ progress_file.valid
    /\ download' = NoDownload
    /\ rendered' = View(session_state)
    /\ last' = Did("backup", None, None, TRUE)
    /\ UNCHANGED <<progress_file, session_state, images, metadata_rows,
                   save_raised, sessions, writes>>

Next ==
    \/ Run
    \/ \E code \in CATEGORIES : ClickCategory(code, Saved)
    \/ \E code \in CONTEXT_CATEGORIES : ClickContext(code, Saved)
    \/ ClickClear(Saved)
    \/ ClickPrevious
    \/ ClickNext
    \/ \E jump_to \in 1..total_images : ClickGo(jump_to)
    \/ ClickNextUncoded
    \/ ClickNextImage
    \/ ClickFinalResults
    \/ ClickCurrentResults
    \/ ClickBackup

Spec == Init /\ [][Next]_vars

(***************************************************************************)
(* The same session when save_progress may raise.                          *)
(***************************************************************************)
\* The outcomes in which the save of progress_data raises.
SaveRaises(progress_data) ==
    IF save_raised < MaxSaveRaises
    THEN SaveOutcomes(progress_data) \ {Saved} ELSE {}

InitFail ==
    InitFrom({pd \in InitStores : Len(pd) <= MaxEntriesFail})

NextFail ==
    \/ Next
    \/ \E code \in CATEGORIES :
          \E outcome \in SaveRaises(SetGroupLabel(session_state,
                                    progress_file.data, code).pd) :
            ClickCategory(code, outcome)
    \/ \E code \in CONTEXT_CATEGORIES :
          \E outcome \in SaveRaises(ToggleContextLabel(session_state,
                                    progress_file.data, code).pd) :
            ClickContext(code, outcome)
    \/ \E outcome \in SaveRaises(ClearSelections(session_state,
                                    progress_file.data).pd) :
            ClickClear(outcome)
    \/ ClickLoadRaises

SpecFail == InitFail /\ [][NextFail]_vars

(***************************************************************************)
(* The same session when load_single_image returns None for some of the    *)
(* images, or st.image raises on them (lines 246-253, 348-351): images is  *)
(* the set of the indices whose image is shown.                            *)
(***************************************************************************)
InitImages == InitWith(InitStores, (SUBSET Indices) \ {Indices}, NumItems)

SpecImages == InitImages /\ [][Next]_vars

(***************************************************************************)
(* The same session on a data set of MoreItems items of which one image    *)
(* is shown.  The progress file holds legacy labels for any of the items,  *)
(* so the items whose image is not shown have a label or none from the     *)
(* start, and the session codes the one item it can.                       *)
(***************************************************************************)
\* The progress file with the legacy label 0 for the indices of K from i on.
RECURSIVE LegacyStore(_, _)
LegacyStore(K, i) ==
    IF i >= MoreItems THEN <<>>
    ELSE (IF i \in K THEN <<[k |-> str(i), v |-> Bare(0)]>> ELSE <<>>)
            \o LegacyStore(K, i + 1)
MoreStores == {LegacyStore(K, 0) : K \in SUBSET (0..(MoreItems - 1))}
InitMore == InitWith(MoreStores, {{i} : i \in Indices}, MoreItems)

SpecMore == InitMore /\ [][Next]_vars

(***************************************************************************)
(* Two sessions on the same progress file.  Each session runs its script   *)
(* in a thread of its own, so a run of one session is several steps here,  *)
(* told apart by pc: "idle" (the page is shown), "run" (past lines         *)
(* 155-186), "save" (inside save_progress, between open() and the end of   *)
(* the with block) and "rerun" (st.rerun() was called).  A step of the     *)
(* other session may come between any two of them.                         *)
(***************************************************************************)
\* The local variable progress_data of the run of session s.
LoadedCopy(s) == sessions[s].progress_data

\* Line 155 and lines 158-186 of a run of session s that a click or a page
\* load starts.  load_progress raises on a file that holds no JSON.
StartRun(s) ==
    /\ sessions[s].pc = "idle"
    /\ IF ~progress_file.valid
       THEN sessions' = [sessions EXCEPT ![s].rendered = Crashed]
       ELSE LET r == InitSession(sessions[s].state, progress_file.data)
            IN  sessions' = [sessions EXCEPT ![s] =
                    [state |-> r.ss,
                     rendered |-> IF r.raised THEN Crashed
                                  ELSE sessions[s].rendered,
                     pc |-> IF r.raised THEN "idle" ELSE "run",
                     progress_data |-> progress_file.data]]
    /\ last' = Did("load", None, None, TRUE)
    /\ UNCHANGED <<progress_file, session_state, images, metadata_rows,
                   rendered, download, save_raised, writes>>

\* The rest of a run of session s in which no handler runs.
EndRun(s) ==
    /\ sessions[s].pc = "run"
    /\ sessions' = [sessions EXCEPT ![s].pc = "idle",
                                    ![s].rendered = View(sessions[s].state)]
    /\ last' = Did("run", None, None, TRUE)
    /\ UNCHANGED <<progress_file, session_state, images, metadata_rows,
                   rendered, download, save_raised, writes>>

\* Widget w was drawn by the last run of session s and is drawn by this one.
ClickableIn(s, w) ==
    /\ sessions[s].pc = "run"
    /\ Drawn(w, sessions[s].rendered, images)
    /\ Drawn(w, View(sessions[s].state), images)

\* A handler of session s that changes labels, up to the open() of
\* save_progress: r is what the handler did to the session state and to the
\* loaded progress data.
WriteIn(s, w, r) ==
    /\ ClickableIn(s, w)
    /\ writes < MaxWrites
    /\ progress_file' = Truncated
    /\ sessions' = [sessions EXCEPT ![s].state = r.ss,
                                    ![s].progress_data = r.pd,
                                    ![s].pc = "save"]
    /\ writes' = writes + 1
    /\ UNCHANGED <<session_state, images, metadata_rows, rendered, download,
                   save_raised>>

ClickCategoryIn(s, code) ==
    /\ WriteIn(s, Widget("btn", code),
               SetGroupLabel(sessions[s].state, LoadedCopy(s), code))
    /\ last' = Did("set", code, None, TRUE)

ClickContextIn(s, code) ==
    /\ WriteIn(s, ContextButton(code),
               ToggleContextLabel(sessions[s].state, LoadedCopy(s), code))
    /\ last' = Did("toggle", code, None, TRUE)

ClickClearIn(s) ==
    /\ WriteIn(s, Button("clear_btn"),
               ClearSelections(sessions[s].state, LoadedCopy(s)))
    /\ last' = Did("clear", None, None, TRUE)

\* Line 108 and the end of the with block in session s, then st.rerun().
FinishSave(s) ==
    /\ sessions[s].pc = "save"
    /\ progress_file' = Written(progress_file, LoadedCopy(s))
    /\ sessions' = [sessions EXCEPT ![s].pc = "rerun"]
    /\ last' = Did("save", None, None, TRUE)
    /\ UNCHANGED <<session_state, images, metadata_rows, rendered, download,
                   save_raised, writes>>

\* Lines 216-219 in session s, up to st.rerun().
ClickGoIn(s, jump_to) ==
    /\ ClickableIn(s, Button("go"))
    /\ sessions' = [sessions EXCEPT ![s].state.current_index = jump_to - 1,
                                    ![s].pc = "rerun"]
    /\ last' = Did("go", None, None, TRUE)
    /\ UNCHANGED <<progress_file, session_state, images, metadata_rows,
                   rendered, download, save_raised, writes>>

\* The run that st.rerun() starts in session s: line 155 again, then the
\* whole script with no click.
Rerun(s) ==
    /\ sessions[s].pc = "rerun"
    /\ IF ~progress_file.valid
       THEN sessions' = [sessions EXCEPT ![s].pc = "idle",
                                        ![s].rendered = Crashed]
       ELSE LET r == InitSession(sessions[s].state, progress_file.data)
            IN  sessions' = [sessions EXCEPT ![s] =
                    [state |-> r.ss,
                     rendered |-> IF r.raised THEN Crashed ELSE View(r.ss),
                     pc |-> "idle",
                     progress_data |-> progress_file.data]]
    /\ last' = Did("rerun", None, None, TRUE)
    /\ UNCHANGED <<progress_file, session_state, images, metadata_rows,
                   rendered, download, save_raised, writes>>

\* The two sessions start on a data set nobody has coded yet, or on one
\* whose first item has a label and a context.
SharedStores == {<<>>, <<[k |-> str(0), v |-> Record(3, 2)]>>}
InitShared == InitFrom(SharedStores)

NextShared ==
    \E s \in SessionIds :
        \/ StartRun(s)
        \/ EndRun(s)
        \/ \E code \in CATEGORIES : ClickCategoryIn(s, code)
        \/ \E code \in CONTEXT_CATEGORIES : ClickContextIn(s, code)
        \/ ClickClearIn(s)
        \/ FinishSave(s)
        \/ \E jump_to \in 1..total_images : ClickGoIn(s, jump_to)
        \/ Rerun(s)

SpecShared == InitShared /\ [][NextShared]_vars

(***************************************************************************)
(* The properties.                                                         *)
(***************************************************************************)
\* The last run got past the session initialisation and drew the page, at
\* least down to the block of the image.
Ready == rendered.ended # "init"
\* Key names index i for the loops of lines 163-177.
NamesIndex(key, i) == isdigit(key) /\ ~IntRaises(key) /\ int(key) = i
\* The progress data has an item that the loader reads into index i.
EntryFor(pd, i) == \E j \in 1..Len(pd) : NamesIndex(pd[j].k, i)
Mutations == {"set", "toggle", "clear"}
Navigations == {"previous", "next", "go", "next_uncoded", "advance_btn"}

\* C1: at every point of a session whose saves succeed, a new session
\* started from the progress file would hold exactly the coded_labels and
\* context_labels this session holds.
C1_StoreMatchesSession ==
    Ready =>
        /\ FreshSession(progress_file.data).coded_labels = coded_labels
        /\ FreshSession(progress_file.data).context_labels = context_labels

\* C2: the progress file has an entry for index i exactly when
\* coded_labels[i] or context_labels[i] is not None.
C2_EntryIffLabelled ==
    Ready =>
        \A i \in Indices :
            EntryFor(progress_file.data, i)
                <=> (coded_labels[i] # None \/ context_labels[i] # None)

\* C3: right after a clear at index i both labels of i are None, the
\* progress file has no entry for i, and a new session started from the file
\* has both labels of i None.
C3_ClearRemovesEntry ==
    (Ready /\ last.op = "clear") =>
        LET i == current_index
            fresh == FreshSession(progress_file.data)
        IN  /\ coded_labels[i] = None
            /\ context_labels[i] = None
            /\ ~HasKey(progress_file.data, str(i))
            /\ fresh.coded_labels[i] = None
            /\ fresh.context_labels[i] = None

\* This step is the second of two Newscast toggles in succession.
NewscastTwice ==
    /\ last.op = "toggle" /\ last.code = 1
    /\ last'.op = "toggle" /\ last'.code = 1 /\ last'.again

\* C4 as stated: two Newscast toggles in succession leave the context of
\* the index None, whatever it was before the first.
C4_TwiceGivesNone ==
    [][NewscastTwice => context_labels'[current_index'] = None]_vars

\* C4 amended: two Newscast toggles in succession leave the context of the
\* index None when it was not Newscast before the first (None or Congress).
C4_TwiceGivesNoneUnlessNewscast ==
    [][(NewscastTwice /\ last.was # 1)
            => context_labels'[current_index'] = None]_vars

\* C4 witness: the second of two Newscast toggles has switched the context,
\* set by the first, off again.
C4_Witness ==
    /\ last.op = "toggle" /\ last.code = 1 /\ last.again
    /\ last.was = 1
    /\ context_labels[current_index] = None

\* The labels and the progress file are as before the step.
SameLabelsAndFile ==
    /\ coded_labels' = coded_labels
    /\ context_labels' = context_labels
    /\ progress_file' = progress_file

\* C5 as stated: a set, toggle or clear applied a second time in succession
\* with the same arguments changes neither the labels nor the progress file.
C5_AllIdempotent ==
    [][(last'.op \in Mutations /\ last'.again) => SameLabelsAndFile]_vars

\* C5 amended: a set applied a second time with the same code changes
\* neither the labels nor the progress file, and the clear handler applied to
\* the state a clear produced changes neither (the button itself is then no
\* longer drawn); a toggle applied a second time with the same code changes
\* the context of the index again.
C5_SetIdempotentToggleNot ==
    [][/\ (last'.op = "set" /\ last'.again) => SameLabelsAndFile
       /\ (last'.op = "toggle" /\ last'.again) =>
              context_labels'[current_index] # context_labels[current_index]
       /\ last'.op = "clear" =>
              /\ ~Clickable(Button("clear_btn"))'
              /\ ClearSelections(session_state', progress_file'.data)
                    = [ss |-> session_state', pd |-> progress_file'.data]]_vars

\* C5 witness: the same category button was clicked twice in succession.
C5_Witness == Ready /\ last.op = "set" /\ last.again

\* C6: a set changes neither context_labels nor current_index, and the
\* entry it writes carries the context the index had before.
C6_SetKeepsContextAndCursor ==
    [][last'.op = "set" =>
          /\ context_labels' = context_labels
          /\ current_index' = current_index
          /\ HasKey(progress_file'.data, str(current_index))
          /\ Lookup(progress_file'.data, str(current_index))
                = Record(last'.code, context_labels[current_index])]_vars

\* C6 witness: a set has acted on an index that has a context, not the last.
C6_Witness ==
    /\ last.op = "set"
    /\ context_labels[current_index] # None
    /\ current_index < total_images - 1

\* C7: the final export is offered only when every index has a group label,
\* and every row of a final export has a group label.
C7_FinalExportComplete ==
    /\ Drawn(Button("final_results"), rendered, images) =>
            \A i \in Indices : coded_labels[i] # None
    /\ download.kind = "final" =>
            \A i \in Indices : download.group_labels[i] # None

\* C8: a set, toggle or clear whose save raised has left coded_labels and
\* context_labels as they were.
C8_FailedSaveKeepsLabels ==
    [][(last'.op \in Mutations /\ ~last'.saved) =>
            /\ coded_labels' = coded_labels
            /\ context_labels' = context_labels]_vars

\* What the item pd[j] gives index i when it is the one read into it.
LabelOf(data) == IF data.isdict THEN Get(data, "group_label") ELSE data.bare
ContextOf(data) ==
    IF data.isdict /\ "context" \in data.keys THEN data.context ELSE None

\* C9: the first run of a session succeeds, and after it every index holds
\* the label and context of the entry whose key is that index below N (a
\* bare value gives the label and no context), and None where there is no
\* such entry; other keys change nothing and raise nothing.
C9_InitialisationSucceeds ==
    (last.op = "start" /\ ~last.again) =>
        /\ Ready
        /\ DOMAIN coded_labels = Indices
        /\ DOMAIN context_labels = Indices
        /\ \A i \in Indices :
              LET pd == progress_file.data
                  named == {j \in 1..Len(pd) : NamesIndex(pd[j].k, i)}
              IN  /\ \A j \in named :
                        /\ coded_labels[i] = LabelOf(pd[j].v)
                        /\ context_labels[i] = ContextOf(pd[j].v)
                  /\ named = {} =>
                        /\ coded_labels[i] = None
                        /\ context_labels[i] = None

\* C10: current_index is an index of the data set in every state.
C10_CursorInBounds == current_index \in Indices

\* C10 witness: with a label at the first index, a jump has moved
\* the cursor to the last index.
C10_Witness ==
    /\ last.op = "go"
    /\ current_index = total_images - 1
    /\ coded_labels[0] # None

\* C11: when the first run of a session that draws the page has ended,
\* current_index is the smallest index whose coded_labels entry is None (an
\* index with only a context counts), and 0 when no entry is None.
C11_StartsAtFirstUncoded ==
    (last.op = "start" /\ Ready) =>
        /\ \A i \in Indices :
              (coded_labels[i] = None
                    /\ \A h \in 0..(i - 1) : coded_labels[h] # None)
                 => current_index = i
        /\ (\A i \in Indices : coded_labels[i] # None) => current_index = 0

\* C11 witness: the session has started on the second index, the first one
\* having a label in the progress file.
C11_Witness ==
    /\ last.op = "start" /\ Ready
    /\ coded_labels[0] # None
    /\ current_index = 1

\* C12: after the first run of a session current_index changes only in a
\* step of Previous, Next, Next Image, Go or go-to-next-uncoded.
C12_CursorMovesOnlyByNavigation ==
    [][(last.op # "open" /\ current_index' # current_index)
            => last'.op \in Navigations]_vars

\* The keys of a progress data.
KeysOf(pd) == {pd[j].k : j \in 1..Len(pd)}

\* C13: with two sessions on one progress file, a set, toggle or clear of a
\* session rewrites the file from the progress data that session loaded at
\* the start of that run: the data it writes is that copy with one change,
\* the entry of its current index, which carries the labels the writing
\* session holds (or is gone after a clear), and once its save_progress has
\* returned the file holds exactly that data.
C13_LastWriteWins ==
    [][\A s \in SessionIds :
          /\ (sessions[s].pc = "run" /\ sessions'[s].pc = "save") =>
                LET copy == sessions[s].progress_data
                    i == sessions[s].state.current_index
                    new == sessions'[s].progress_data
                    mine == sessions'[s].state
                IN  /\ \A key \in (KeysOf(copy) \cup KeysOf(new)) \ {str(i)} :
                          /\ HasKey(copy, key) /\ HasKey(new, key)
                          /\ Lookup(new, key) = Lookup(copy, key)
                    /\ last'.op \in {"set", "toggle"} =>
                          /\ HasKey(new, str(i))
                          /\ Lookup(new, str(i))
                                = Record(mine.coded_labels[i],
                                         mine.context_labels[i])
                    /\ last'.op = "clear" => ~HasKey(new, str(i))
          /\ (sessions[s].pc = "save" /\ sessions'[s].pc = "rerun") =>
                /\ progress_file'.valid
                /\ progress_file'.data = sessions[s].progress_data]_vars

\* C14: a final or current-results export has one row for each index
\* 0..N-1; row i has the group_label and the context of the record the
\* progress file has at key str(i), a legacy value as group label with no
\* context, and neither when the file has no such key.
C14_ExportRows ==
    download.kind \in {"final", "current"} =>
        /\ DOMAIN download.group_labels = 0..(metadata_rows - 1)
        /\ DOMAIN download.context_labels = 0..(metadata_rows - 1)
        /\ \A i \in 0..(metadata_rows - 1) :
              LET pd == progress_file.data
                  at == {j \in 1..Len(pd) : pd[j].k = str(i)}
                  row == <<download.group_labels[i],
                           download.context_labels[i]>>
              IN  /\ at = {} => row = <<None, None>>
                  /\ \A j \in at :
                        /\ pd[j].v.isdict =>
                              row = <<IF "group_label" \in pd[j].v.keys
                                      THEN pd[j].v.group_label ELSE None,
                                      IF "context" \in pd[j].v.keys
                                      THEN pd[j].v.context ELSE None>>
                        /\ ~pd[j].v.isdict => row = <<pd[j].v.bare, None>>

\* C14 witness: the final export of the file {"0": {group_label 3, context
\* 2}, "1": 0} has the rows (3, 2) and (0, None).
C14_Witness ==
    /\ download.kind = "final"
    /\ progress_file.data = <<[k |-> str(0), v |-> Record(3, 2)],
                              [k |-> str(1), v |-> Bare(0)]>>
    /\ download.group_labels = (0 :> 3 @@ 1 :> 0)
    /\ download.context_labels = (0 :> 2 @@ 1 :> None)

\* C15: a toggle with a code makes the context of the current index None
\* when it was that code and that code otherwise, leaves coded_labels as
\* they were, and leaves in the progress file, at the key of the index, the
\* record of the group label of the index and its new context; and in every
\* state an index has at most one of the contexts Newscast and Congress.
C15_ToggleSemantics ==
    /\ [](\A i \in Indices :
            Cardinality({c \in CONTEXT_CATEGORIES : context_labels[i] = c})
                <= 1)
    /\ [][last'.op = "toggle" =>
            LET i == current_index
                code == last'.code
            IN  /\ context_labels'[i]
                      = IF context_labels[i] = code THEN None ELSE code
                /\ coded_labels' = coded_labels
                /\ \E j \in 1..Len(progress_file'.data) :
                      /\ progress_file'.data[j].k = str(i)
                      /\ progress_file'.data[j].v.isdict
                      /\ progress_file'.data[j].v.keys
                            = {"group_label", "context"}
                      /\ progress_file'.data[j].v.group_label
                            = coded_labels[i]
                      /\ progress_file'.data[j].v.context
                            = context_labels'[i]]_vars

\* C15 witness: a toggle has replaced the other context of an index that
\* has a group label.
C15_Witness ==
    /\ last.op = "toggle"
    /\ last.was \in CONTEXT_CATEGORIES \ {last.code}
    /\ context_labels[current_index] = last.code
    /\ coded_labels[current_index] # None

\* C16: go-to-next-uncoded moves the cursor to the smallest index after it
\* whose coded_labels entry is None; when there is none (also when the only
\* such indices are at or before the cursor) the cursor stays; the labels
\* and the progress file are as before in both cases.
C16_NextUncoded ==
    [][last'.op = "next_uncoded" =>
          LET later == {j \in Indices :
                          j > current_index /\ coded_labels[j] = None}
          IN  /\ later # {} =>
                    /\ current_index' \in later
                    /\ \A j \in later : current_index' <= j
              /\ later = {} => current_index' = current_index
              /\ SameLabelsAndFile]_vars

\* C16 witness: go-to-next-uncoded has moved the cursor from the first
\* index, which has a label, to the second, the nearer of the two later
\* indices without a label.
C16_Witness ==
    /\ last.op = "next_uncoded"
    /\ total_images = MoreItems
    /\ current_index = 1
    /\ coded_labels[0] # None
    /\ coded_labels[1] = None
    /\ coded_labels[2] = None

\* The sum of the values of a dict of counts.
RECURSIVE SumOf(_)
SumOf(counts) ==
    IF DOMAIN counts = {} THEN 0
    ELSE LET c == CHOOSE c \in DOMAIN counts : TRUE
         IN  counts[c] + SumOf([d \in DOMAIN counts \ {c} |-> counts[d]])

\* C17: in every state the counts per group label sum to coded_count, the
\* number of coded_labels entries other than None, and the counts per
\* context sum to the number of context_labels entries other than None.
C17_CountsSum ==
    /\ SumOf(label_counts(session_state)) = coded_count(coded_labels)
    /\ SumOf(context_counts(session_state))
          = Cardinality({i \in Indices : context_labels[i] # None})

\* The page is drawn and the image of the current index is not shown.
NoImage == Ready /\ current_index \notin images

\* C18: while the image of the current index is not shown, Previous (off
\* the first index), Next (off the last), Go and go-to-next-uncoded can be
\* clicked, they move the cursor as they do elsewhere, and no step changes a
\* label or the progress file.
C18_NavigationWithoutImage ==
    /\ [](NoImage =>
            /\ current_index # 0 => ENABLED ClickPrevious
            /\ current_index < total_images - 1 => ENABLED ClickNext
            /\ \A jump_to \in 1..total_images : ENABLED ClickGo(jump_to)
            /\ ENABLED ClickNextUncoded)
    /\ [][NoImage =>
            LET later == {j \in Indices :
                            j > current_index /\ coded_labels[j] = None}
            IN  /\ SameLabelsAndFile
                /\ last'.op \notin Mutations
                /\ last'.op = "previous" => current_index' = current_index - 1
                /\ last'.op = "next" => current_index' = current_index + 1
                /\ last'.op = "go" => current_index' \in Indices
                /\ last'.op = "next_uncoded" =>
                      /\ later # {} =>
                            /\ current_index' \in later
                            /\ \A j \in later : current_index' <= j
                      /\ later = {} => current_index' = current_index]_vars

\* C18 witness: Next has moved the cursor off the first index, whose image
\* is not shown.
C18_Witness ==
    /\ last.op = "next"
    /\ current_index = 1
    /\ 0 \notin images

\* C19: a set, toggle or clear changes the labels of no index but the
\* current one, and changes no entry of the progress file but the one at
\* the key of the current index: every other key, a legacy value, a key
\* that is no index or lies beyond the data set included, keeps its value.
C19_OnlyCurrentIndex ==
    [][last'.op \in Mutations =>
          /\ current_index' = current_index
          /\ \A j \in Indices \ {current_index} :
                /\ coded_labels'[j] = coded_labels[j]
                /\ context_labels'[j] = context_labels[j]
          /\ \A key \in (KeysOf(progress_file.data)
                            \cup KeysOf(progress_file'.data))
                                \ {str(current_index)} :
                /\ HasKey(progress_file.data, key)
                /\ HasKey(progress_file'.data, key)
                /\ Lookup(progress_file'.data, key)
                      = Lookup(progress_file.data, key)]_vars

\* C19 witness: after a clear the progress file still has a legacy value
\* at another key.
C19_Witness ==
    /\ last.op = "clear"
    /\ \E j \in 1..Len(progress_file.data) :
          /\ progress_file.data[j].k # str(current_index)
          /\ ~progress_file.data[j].v.isdict

\* C20: a category button, a context button or the clear button can be
\* clicked only while the image of the current index is shown; so once the
\* page is drawn no step changes the labels of an index whose image is not
\* shown, and while such an index has no group label the final export can
\* neither be clicked nor has it been made.
C20_NoImageNoLabel ==
    /\ [](current_index \notin images =>
            /\ \A code \in CATEGORIES : ~ENABLED ClickCategory(code, Saved)
            /\ \A code \in CONTEXT_CATEGORIES :
                  ~ENABLED ClickContext(code, Saved)
            /\ ~ENABLED ClickClear(Saved))
    /\ [][Ready =>
            \A i \in Indices \ images :
                /\ coded_labels'[i] = coded_labels[i]
                /\ context_labels'[i] = context_labels[i]]_vars
    /\ []((Ready /\ \E i \in Indices \ images : coded_labels[i] = None) =>
            /\ ~ENABLED ClickFinalResults
            /\ download.kind # "final")

\* C20 witness: the only index whose image is shown has been given a label,
\* the other index has none.
C20_Witness ==
    /\ last.op = "set"
    /\ images = {current_index}
    /\ \A i \in Indices \ images : coded_labels[i] = None

====
